---- MODULE Spec2Model ----
(***************************************************************************)
(* Model of the EU AI Act assessment wizard of evaluaT                     *)
(* (frontend/src/App.js, AssessmentComponent): the React state of the      *)
(* component, its three handlers, the POST issued by submitAssessment and  *)
(* the screens that gate which handler the user can reach.                 *)
(***************************************************************************)
EXTENDS Integers, Sequences, FiniteSets, TLC

VARIABLES
    currentStep,        \* useState(0): index of the question shown
    responses,          \* useState({}): question id -> selected option value
    assessmentLoading,  \* useState(false)
    result,             \* useState(null): response.data of the POST
    pending,            \* payloads of POST /assessments still in flight
    lastOp,             \* history: the handler that ran last
    retreatedFrom,      \* history: the state handlePrevious has just left
    scKind,             \* scoring service: what it was handed
    scAnswers,          \* scoring service: the AnswerSet to score
    scTotal,            \* scoring service: an accumulated total to finish
    scResult,           \* scoring service: what score returned
    scDone,             \* scoring service: score has returned
    activeTab,          \* MainDashboard useState('dashboard')
    stats,              \* MainDashboard useState(null)
    assessments,        \* MainDashboard useState([])
    dashboardLoading,   \* MainDashboard useState(true)
    isDemo,             \* MainDashboard: the route is /demo
    dashFetches,        \* fetchDashboardData calls awaiting Promise.all
    dashEffect,         \* the [activeTab] effect is due
    user,               \* AuthProvider useState(null)
    token,              \* AuthProvider useState(localStorage token)
    storedToken,        \* localStorage item 'token'
    storedUser,         \* localStorage item 'user' (JSON text)
    authHeader,         \* axios default Authorization header
    authLoading,        \* AuthProvider useState(true)
    validating,         \* validation GETs in flight: the token each carries
    authEffect,         \* the [token] effect is due
    sessions,           \* ChatComponent useState([]): ids listed
    currentSession,     \* ChatComponent useState(null)
    messages,           \* ChatComponent useState([]): owner of each message
    newMessage,         \* ChatComponent useState('')
    chatLoading,        \* ChatComponent useState(false)
    chatRequests,       \* chat requests in flight
    srvSessions,        \* chat backend: sessions that exist
    srvCreated,         \* chat backend: sessions created so far
    srvMessages,        \* chat backend: exchanges stored per session
    isAuthenticated,    \* AdminPanel useState(false)
    adminToken,         \* localStorage item 'admin_token'
    adminLoading,       \* AdminPanel useState(false): login POST in flight
    dashboardData,      \* AdminPanel useState(null)
    updating,           \* AdminPanel useState(false)
    updateStage,        \* runManualUpdate: the await it is suspended at
    updateType,         \* runManualUpdate: its argument
    adminFetches,       \* fetchDashboardData calls of login / mount in flight
    adminEffect         \* the mount effect is due

\* The state of the wizard component.
wizardVars == <<currentStep, responses, assessmentLoading, result, pending,
                lastOp, retreatedFrom>>

\* The state of the scoring service that answers POST /assessments.
scoreVars == <<scKind, scAnswers, scTotal, scResult, scDone>>

\* The state of MainDashboard.
dashVars == <<activeTab, stats, assessments, dashboardLoading, isDemo,
              dashFetches, dashEffect>>

\* The state of the token-validating AuthProvider and of localStorage.
authVars == <<user, token, storedToken, storedUser, authHeader, authLoading,
              validating, authEffect>>

\* The state of ChatComponent and of the chat backend.
chatVars == <<sessions, currentSession, messages, newMessage, chatLoading,
              chatRequests, srvSessions, srvCreated, srvMessages>>

\* The state of AdminPanel.
adminVars == <<isAuthenticated, adminToken, adminLoading, dashboardData,
               updating, updateStage, updateType, adminFetches, adminEffect>>

\* The components around the wizard.
panelVars == <<dashVars, authVars, chatVars, adminVars>>

vars == <<wizardVars, scoreVars, panelVars>>

Null == "null"

\* localStorage.getItem of an item that is not stored.
NoItem == << >>

\* MainDashboard before it is mounted.
DashIdle ==
    /\ activeTab = "dashboard"
    /\ stats = Null
    /\ assessments = << >>
    /\ dashboardLoading = TRUE
    /\ isDemo = FALSE
    /\ dashFetches = 0
    /\ dashEffect = FALSE

\* AuthProvider before it is mounted, nothing stored.
AuthIdle ==
    /\ user = Null
    /\ token = Null
    /\ storedToken = Null
    /\ storedUser = NoItem
    /\ authHeader = Null
    /\ authLoading = TRUE
    /\ validating = << >>
    /\ authEffect = FALSE

\* ChatComponent before it is mounted, no session on the backend.
ChatIdle ==
    /\ sessions = {}
    /\ currentSession = Null
    /\ messages = << >>
    /\ newMessage = ""
    /\ chatLoading = FALSE
    /\ chatRequests = << >>
    /\ srvSessions = {}
    /\ srvCreated = 0
    /\ srvMessages = << >>

\* AdminPanel before it is mounted, no admin token stored.
AdminIdle ==
    /\ isAuthenticated = FALSE
    /\ adminToken = Null
    /\ adminLoading = FALSE
    /\ dashboardData = Null
    /\ updating = FALSE
    /\ updateStage = "idle"
    /\ updateType = "all"
    /\ adminFetches = 0
    /\ adminEffect = FALSE

PanelsIdle == DashIdle /\ AuthIdle /\ ChatIdle /\ AdminIdle

\* The fixed question list; labels and prompts are presentation only.
questions ==
    << [id |-> "company_description",
        options |-> <<"medical_diagnosis", "treatment_recommendation",
                      "insurance_risk_assessment", "automated_underwriting",
                      "other">>],
       [id |-> "medical_diagnosis",
        options |-> <<"yes", "partial", "no">>],
       [id |-> "automated_decision_making",
        options |-> <<"yes", "partial", "no">>],
       [id |-> "biometric_identification",
        options |-> <<"yes", "partial", "no">>],
       [id |-> "emotion_recognition",
        options |-> <<"yes", "partial", "no">>],
       [id |-> "data_processing",
        options |-> <<"sensitive", "personal", "anonymous", "none">>],
       [id |-> "transparency",
        options |-> <<"full", "partial", "minimal", "none">>],
       [id |-> "human_oversight",
        options |-> <<"continuous", "periodic", "exception", "none">> ] >>

\* questions.length
QuestionCount == Len(questions)

QuestionIds == { questions[i].id : i \in 1..QuestionCount }

\* Mutant: the last option of each question is not rendered.
OptionsOf_DropsLast(qid) ==
    LET i == CHOOSE j \in 1..QuestionCount : questions[j].id = qid
    IN  { questions[i].options[k] : k \in 1..(Len(questions[i].options) - 1) }

\* The option values declared for the question with this id.
OptionsOf(qid) ==
    LET i == CHOOSE j \in 1..QuestionCount : questions[j].id = qid
    IN  { questions[i].options[k] : k \in 1..Len(questions[i].options) }

\* const currentQuestion = questions[currentStep]  (JS arrays are 0-based)
currentQuestionAt(step) == questions[step + 1]

currentQuestion == currentQuestionAt(currentStep)

\* responses[id] || ''  : the value the RadioGroup shows as selected
RadioValue(resp, qid) == IF qid \in DOMAIN resp THEN resp[qid] ELSE ""

\* Mutant: every step renders the radio items of the first question.
RadioItems_FirstQuestion(step) ==
    { questions[1].options[k] : k \in 1..Len(questions[1].options) }

\* The values the radio items of the step offer to onValueChange.
RadioItems(step) ==
    { currentQuestionAt(step).options[k] :
        k \in 1..Len(currentQuestionAt(step).options) }

\* The RadioGroup passes currentQuestion.id to handleAnswer.
AnswerTarget(step) == currentQuestionAt(step).id

\* Mutant: the Next button has no disabled condition.
NextDisabled_Never == FALSE

\* Mutant: the Next button looks at the answer of the first question.
NextDisabled_FirstQuestion == RadioValue(responses, questions[1].id) = ""

\* disabled={!responses[currentQuestion.id]} on the Next button
NextDisabled == RadioValue(responses, currentQuestion.id) = ""

\* disabled={currentStep === 0} on the Previous button
PreviousDisabled == currentStep = 0

\* Mutant: the loading screen does not replace the form.
FormShown_IgnoresLoading == result = Null

\* The form is rendered only when neither the result screen nor the
\* loading screen returned first.
FormShown == result = Null /\ ~assessmentLoading

\* Mutant: a question already answered keeps its first answer.
handleAnswer_KeepFirst(prev, questionId, value) ==
    IF questionId \in DOMAIN prev
        THEN prev
        ELSE [q \in (DOMAIN prev) \cup {questionId} |->
                IF q = questionId THEN value ELSE prev[q]]

\* Mutant: the spread of prev is missing, the new object has one key.
handleAnswer_NoSpread(prev, questionId, value) ==
    [q \in {questionId} |-> value]

\* setResponses(prev => ({...prev, [questionId]: value}))
handleAnswer(prev, questionId, value) ==
    [q \in (DOMAIN prev) \cup {questionId} |->
        IF q = questionId THEN value ELSE prev[q]]

\* Mutant: the test lets the index run past the last question.
HasNextStep_PastLast(step) == step < Len(questions)

\* Mutant: the test is off by one and submits one question early.
HasNextStep_OffByOne(step) == step < Len(questions) - 2

\* the test of handleNext: currentStep < questions.length - 1
HasNextStep(step) == step < Len(questions) - 1

\* Mutant: going back returns to the first question.
handlePrevious_ToStart(step) == IF step > 0 THEN 0 ELSE step

\* handlePrevious: if (currentStep > 0) setCurrentStep(currentStep - 1)
handlePrevious(step) == IF step > 0 THEN step - 1 ELSE step

\* What the backend answers to POST /assessments (opaque here).
ResponseData == {"assessment"}

\* Nothing has been handed to the scoring service.
NoResult == [error |-> "not_scored"]

ScoreIdle ==
    /\ scKind = "idle"
    /\ scAnswers = << >>
    /\ scTotal = 0
    /\ scResult = NoResult
    /\ scDone = FALSE

\* The component as its useState initialisers leave it.
WizardInit ==
    /\ currentStep = 0
    /\ responses = << >>
    /\ assessmentLoading = FALSE
    /\ result = Null
    /\ pending = << >>
    /\ lastOp = "start"
    /\ retreatedFrom = Null

Init == WizardInit /\ ScoreIdle /\ PanelsIdle

\* The user picks a radio item of the question shown.
HandleAnswer ==
    /\ FormShown
    /\ \E value \in RadioItems(currentStep) :
          responses' = handleAnswer(responses, AnswerTarget(currentStep), value)
    /\ lastOp' = "handleAnswer"
    /\ retreatedFrom' = Null
    /\ UNCHANGED <<currentStep, assessmentLoading, result, pending>>
    /\ UNCHANGED <<scoreVars, panelVars>>

\* submitAssessment up to its await: the loading flag and the POST.
submitAssessment ==
    /\ assessmentLoading' = TRUE
    /\ pending' = Append(pending, responses)

\* Mutant: submitting also rewinds the wizard to the first question.
HandleNext_RewindOnSubmit ==
    /\ FormShown
    /\ ~NextDisabled
    /\ IF HasNextStep(currentStep)
          THEN /\ currentStep' = currentStep + 1
               /\ UNCHANGED <<assessmentLoading, pending>>
          ELSE /\ submitAssessment
               /\ currentStep' = 0
    /\ lastOp' = "handleNext"
    /\ retreatedFrom' = Null
    /\ UNCHANGED <<responses, result>>
    /\ UNCHANGED <<scoreVars, panelVars>>

\* Mutant: a "no" answer skips the question that follows.
HandleNext_SkipOnNo ==
    /\ FormShown
    /\ ~NextDisabled
    /\ IF HasNextStep(currentStep)
          THEN /\ currentStep' =
                    IF /\ HasNextStep(currentStep + 1)
                       /\ RadioValue(responses, currentQuestion.id) = "no"
                       THEN currentStep + 2
                       ELSE currentStep + 1
               /\ UNCHANGED <<assessmentLoading, pending>>
          ELSE /\ submitAssessment
               /\ UNCHANGED currentStep
    /\ lastOp' = "handleNext"
    /\ retreatedFrom' = Null
    /\ UNCHANGED <<responses, result>>
    /\ UNCHANGED <<scoreVars, panelVars>>

\* The user clicks Siguiente / Finalizar.
HandleNext ==
    /\ FormShown
    /\ ~NextDisabled
    /\ IF HasNextStep(currentStep)
          THEN /\ currentStep' = currentStep + 1
               /\ UNCHANGED <<assessmentLoading, pending>>
          ELSE /\ submitAssessment
               /\ UNCHANGED currentStep
    /\ lastOp' = "handleNext"
    /\ retreatedFrom' = Null
    /\ UNCHANGED <<responses, result>>
    /\ UNCHANGED <<scoreVars, panelVars>>

\* Mutant: neither the button nor the handler tests currentStep.
HandlePrevious_Unguarded ==
    /\ FormShown
    /\ currentStep' = currentStep - 1
    /\ lastOp' = "handlePrevious"
    /\ retreatedFrom' = [step |-> currentStep, responses |-> responses]
    /\ UNCHANGED <<responses, assessmentLoading, result, pending>>
    /\ UNCHANGED <<scoreVars, panelVars>>

\* Mutant: going back forgets the answer of the question being left.
HandlePrevious_ErasesAnswer ==
    /\ FormShown
    /\ ~PreviousDisabled
    /\ currentStep' = handlePrevious(currentStep)
    /\ responses' = [q \in (DOMAIN responses) \ {currentQuestion.id} |->
                        responses[q]]
    /\ lastOp' = "handlePrevious"
    /\ retreatedFrom' = [step |-> currentStep, responses |-> responses]
    /\ UNCHANGED <<assessmentLoading, result, pending>>
    /\ UNCHANGED <<scoreVars, panelVars>>

\* The user clicks Anterior.
HandlePrevious ==
    /\ FormShown
    /\ ~PreviousDisabled
    /\ currentStep' = handlePrevious(currentStep)
    /\ lastOp' = "handlePrevious"
    /\ retreatedFrom' = [step |-> currentStep, responses |-> responses]
    /\ UNCHANGED <<responses, assessmentLoading, result, pending>>
    /\ UNCHANGED <<scoreVars, panelVars>>

\* The POST resolves: setResult(response.data), then the finally block.
PostSucceeds ==
    /\ pending # << >>
    /\ \E data \in ResponseData : result' = data
    /\ assessmentLoading' = FALSE
    /\ pending' = Tail(pending)
    /\ lastOp' = "postSucceeds"
    /\ retreatedFrom' = Null
    /\ UNCHANGED <<currentStep, responses>>
    /\ UNCHANGED <<scoreVars, panelVars>>

\* Mutant: the loading flag is reset after the try body, not in a finally.
PostFails_NoFinally ==
    /\ pending # << >>
    /\ pending' = Tail(pending)
    /\ lastOp' = "postFails"
    /\ retreatedFrom' = Null
    /\ UNCHANGED <<currentStep, responses, result, assessmentLoading>>
    /\ UNCHANGED <<scoreVars, panelVars>>

\* The POST rejects: the catch block logs, then the finally block.
PostFails ==
    /\ pending # << >>
    /\ assessmentLoading' = FALSE
    /\ pending' = Tail(pending)
    /\ lastOp' = "postFails"
    /\ retreatedFrom' = Null
    /\ UNCHANGED <<currentStep, responses, result>>
    /\ UNCHANGED <<scoreVars, panelVars>>

\* Mutant: the answers survive the mount (state kept outside the component).
Remount_KeepsAnswers ==
    /\ lastOp # "start"
    /\ currentStep' = 0
    /\ responses' = responses
    /\ assessmentLoading' = FALSE
    /\ result' = Null
    /\ pending' = << >>
    /\ lastOp' = "start"
    /\ retreatedFrom' = Null
    /\ UNCHANGED <<scoreVars, panelVars>>

\* The component is mounted afresh (window.location.reload() of the result
\* screen, or the sidebar leaving and re-entering the assessment tab); the
\* callbacks of the instance that went away no longer reach any state.
Remount ==
    /\ lastOp # "start"
    /\ currentStep' = 0
    /\ responses' = << >>
    /\ assessmentLoading' = FALSE
    /\ result' = Null
    /\ pending' = << >>
    /\ lastOp' = "start"
    /\ retreatedFrom' = Null
    /\ UNCHANGED <<scoreVars, panelVars>>

Next ==
    \/ HandleAnswer
    \/ HandleNext
    \/ HandlePrevious
    \/ PostSucceeds
    \/ PostFails
    \/ Remount

Spec == Init /\ [][Next]_vars

----------------------------------------------------------------------------
(***************************************************************************)
(* The Risk Scoring Function that answers POST /assessments.  Scores are   *)
(* fixed-point numbers: Scale stands for 1.0.                              *)
(***************************************************************************)

Scale == 100000

\* The clamp range [0.0, 10.0].
MinScore == 0

MaxScore == 10 * Scale

\* The lower bounds of the bands limited (2.5), high (5.0), unacceptable (7.5).
LimitedFrom == 250000

HighFrom == 500000

UnacceptableFrom == 750000

\* A rule that carries no recommendation.
NoRecommendation == ""

Rule(qid, value, delta, rec) ==
    [questionId |-> qid, value |-> value, scoreDelta |-> delta,
     recommendation |-> rec]

\* The rule table: one RiskRule for each (questionId, value) pair, in
\* declaration order.
RuleTable ==
    << Rule("company_description", "medical_diagnosis", 100000,
            "Verificar la clasificacion del producto bajo MDR"),
       Rule("company_description", "treatment_recommendation", 100000,
            "Verificar la clasificacion del producto bajo MDR"),
       Rule("company_description", "insurance_risk_assessment", 75000,
            "Documentar los criterios de evaluacion de riesgos"),
       Rule("company_description", "automated_underwriting", 75000,
            "Documentar los criterios de evaluacion de riesgos"),
       Rule("company_description", "other", 0, NoRecommendation),
       Rule("medical_diagnosis", "yes", 250000,
            "Realizar una evaluacion clinica del sistema"),
       Rule("medical_diagnosis", "partial", 125000,
            "Realizar una evaluacion clinica del sistema"),
       Rule("medical_diagnosis", "no", 0, NoRecommendation),
       Rule("automated_decision_making", "yes", 200000,
            "Implementar supervision humana efectiva"),
       Rule("automated_decision_making", "partial", 100000,
            "Garantizar el derecho a revision humana"),
       Rule("automated_decision_making", "no", 0, NoRecommendation),
       Rule("biometric_identification", "yes", 250000,
            "Realizar una evaluacion de impacto (DPIA)"),
       Rule("biometric_identification", "partial", 100000,
            "Realizar una evaluacion de impacto (DPIA)"),
       Rule("biometric_identification", "no", 0, NoRecommendation),
       Rule("emotion_recognition", "yes", 150000,
            "Revisar los usos prohibidos del reconocimiento de emociones"),
       Rule("emotion_recognition", "partial", 50000, NoRecommendation),
       Rule("emotion_recognition", "no", 0, NoRecommendation),
       Rule("data_processing", "sensitive", 150000,
            "Realizar una evaluacion de impacto (DPIA)"),
       Rule("data_processing", "personal", 75000,
            "Mantener el registro de actividades de tratamiento"),
       Rule("data_processing", "anonymous", 25000, NoRecommendation),
       Rule("data_processing", "none", 0, NoRecommendation),
       Rule("transparency", "full", -50000, NoRecommendation),
       Rule("transparency", "partial", 50000,
            "Informar a los usuarios del uso de IA"),
       Rule("transparency", "minimal", 100000,
            "Informar a los usuarios del uso de IA"),
       Rule("transparency", "none", 150000,
            "Informar a los usuarios del uso de IA"),
       Rule("human_oversight", "continuous", -50000, NoRecommendation),
       Rule("human_oversight", "periodic", 50000,
            "Implementar supervision humana efectiva"),
       Rule("human_oversight", "exception", 100000,
            "Implementar supervision humana efectiva"),
       Rule("human_oversight", "none", 200000,
            "Implementar supervision humana efectiva") >>

\* A rule is triggered by the answer set when its pair is in it.
Triggered(rule, answers) ==
    /\ rule.questionId \in DOMAIN answers
    /\ answers[rule.questionId] = rule.value

\* Steps 1-2: the contributions of the triggered rules, summed.
RECURSIVE Accumulate(_, _)
Accumulate(answers, n) ==
    IF n = 0
        THEN 0
        ELSE Accumulate(answers, n - 1) +
             (IF Triggered(RuleTable[n], answers)
                 THEN RuleTable[n].scoreDelta
                 ELSE 0)

\* Mutant: the total is the average contribution, not the sum.
Total_Average(answers) == Accumulate(answers, Len(RuleTable)) \div QuestionCount

Total(answers) == Accumulate(answers, Len(RuleTable))

\* Mutant: the ceiling is missing.
Clamp_NoCeiling(total) == IF total < MinScore THEN MinScore ELSE total

\* Mutant: a total outside the range is taken as invalid and scored 0.
Clamp_ResetOutOfRange(total) ==
    IF total > MaxScore \/ total < MinScore THEN MinScore ELSE total

\* Step 3: a ceiling and a floor, not a rescale.
Clamp(total) ==
    IF total > MaxScore THEN MaxScore
    ELSE IF total < MinScore THEN MinScore
    ELSE total

\* Mutant: the bands are inclusive on their upper bound.
RiskLevel_UpperInclusive(riskScore) ==
    IF riskScore <= LimitedFrom THEN "minimal"
    ELSE IF riskScore <= HighFrom THEN "limited"
    ELSE IF riskScore <= UnacceptableFrom THEN "high"
    ELSE "unacceptable"

\* Step 4: the band of the clamped score.
RiskLevel(riskScore) ==
    IF riskScore < LimitedFrom THEN "minimal"
    ELSE IF riskScore < HighFrom THEN "limited"
    ELSE IF riskScore < UnacceptableFrom THEN "high"
    ELSE "unacceptable"

\* Mutant: high risk is reported as non compliant.
ComplianceStatus_HighNonCompliant(riskLevel) ==
    CASE riskLevel = "minimal" -> "compliant"
      [] riskLevel = "limited" -> "partially_compliant"
      [] riskLevel = "high" -> "non_compliant"
      [] riskLevel = "unacceptable" -> "non_compliant"
      [] OTHER -> "not_assessed"

\* Step 5: the compliance status of a risk level.
ComplianceStatus(riskLevel) ==
    CASE riskLevel = "minimal" -> "compliant"
      [] riskLevel = "limited" -> "partially_compliant"
      [] riskLevel = "high" -> "partially_compliant"
      [] riskLevel = "unacceptable" -> "non_compliant"
      [] OTHER -> "not_assessed"

\* Is the string already in the list?
InList(list, str) == \E k \in 1..Len(list) : list[k] = str

\* Mutant: a recommendation is appended each time a rule carries it.
RECURSIVE Collect_NoDedup(_, _, _)
Collect_NoDedup(answers, n, acc) ==
    IF n > Len(RuleTable)
        THEN acc
        ELSE Collect_NoDedup(answers, n + 1,
                IF /\ Triggered(RuleTable[n], answers)
                   /\ RuleTable[n].recommendation # NoRecommendation
                    THEN Append(acc, RuleTable[n].recommendation)
                    ELSE acc)

\* Step 6: the recommendations of the triggered rules, in declaration
\* order, each once.
RECURSIVE Collect(_, _, _)
Collect(answers, n, acc) ==
    IF n > Len(RuleTable)
        THEN acc
        ELSE Collect(answers, n + 1,
                IF /\ Triggered(RuleTable[n], answers)
                   /\ RuleTable[n].recommendation # NoRecommendation
                   /\ ~InList(acc, RuleTable[n].recommendation)
                    THEN Append(acc, RuleTable[n].recommendation)
                    ELSE acc)

Recommendations(answers) == Collect(answers, 1, << >>)

\* Steps 3-5 on an accumulated total (created_at is not modelled).
Finish(total, recs) ==
    [error |-> "none",
     risk_score |-> Clamp(total),
     risk_level |-> RiskLevel(Clamp(total)),
     compliance_status |-> ComplianceStatus(RiskLevel(Clamp(total))),
     recommendations |-> recs]

\* An answer set is complete when every question id has an entry.
IsCompleteAnswerSet(answers) == QuestionIds \subseteq DOMAIN answers

\* Mutant: a missing answer counts as the neutral option.
score_MissingAsNeutral(answers) ==
    Finish(Total(answers), Recommendations(answers))

\* score(answers): a result for a complete answer set, an error otherwise.
score(answers) ==
    IF IsCompleteAnswerSet(answers)
        THEN Finish(Total(answers), Recommendations(answers))
        ELSE [error |-> "IncompleteAnswerSetError"]

\* No entry for the question in an answer set handed to score.
Absent == "(absent)"

\* What a caller can hand over for question i: one of its options or nothing.
Choices(i) == OptionsOf(questions[i].id) \cup {Absent}

\* The answer set that holds the entries of the tuple that are not absent.
ToAnswerSet(t) ==
    LET ids == { questions[i].id : i \in { j \in 1..QuestionCount : t[j] # Absent } }
    IN  [qid \in ids |->
            t[CHOOSE j \in 1..QuestionCount : questions[j].id = qid]]

\* The largest total, in whole points either side of 0, handed to Finish.
MaxProbeTotal == 12

\* Totals handed to Finish: every quarter point of the range and the
\* totals next to each band boundary.
ProbeTotals ==
    { k * (Scale \div 4) : k \in (-4 * MaxProbeTotal)..(4 * MaxProbeTotal) }
    \cup { b + d : b \in {LimitedFrom, HighFrom, UnacceptableFrom},
                   d \in {-1, 1} }

\* The minimal-risk scenario as the specification words it: seven entries,
\* medical_diagnosis answered "other".
ScenarioMinimalAsStated ==
    [qid \in {"medical_diagnosis", "automated_decision_making",
              "biometric_identification", "emotion_recognition",
              "data_processing", "transparency", "human_oversight"} |->
        CASE qid = "medical_diagnosis" -> "other"
          [] qid = "data_processing" -> "none"
          [] qid = "transparency" -> "full"
          [] qid = "human_oversight" -> "continuous"
          [] OTHER -> "no"]

\* The service is handed an answer set (complete or not) or a total.
ScoreInit ==
    /\ WizardInit
    /\ PanelsIdle
    /\ scResult = NoResult
    /\ scDone = FALSE
    /\ \/ /\ scKind = "answers"
          /\ \E t \in Choices(1) \X Choices(2) \X Choices(3) \X Choices(4)
                      \X Choices(5) \X Choices(6) \X Choices(7) \X Choices(8) :
                scAnswers = ToAnswerSet(t)
          /\ scTotal = 0
       \/ /\ scKind = "answers"
          /\ scAnswers = ScenarioMinimalAsStated
          /\ scTotal = 0
       \/ /\ scKind = "total"
          /\ scAnswers = << >>
          /\ scTotal \in ProbeTotals

\* score(answers) returns.
ScoreAnswers ==
    /\ scKind = "answers"
    /\ ~scDone
    /\ scResult' = score(scAnswers)
    /\ scDone' = TRUE
    /\ UNCHANGED <<scKind, scAnswers, scTotal>>
    /\ UNCHANGED <<wizardVars, panelVars>>

\* Steps 3-5 applied to a total.
ScoreTotal ==
    /\ scKind = "total"
    /\ ~scDone
    /\ scResult' = Finish(scTotal, << >>)
    /\ scDone' = TRUE
    /\ UNCHANGED <<scKind, scAnswers, scTotal>>
    /\ UNCHANGED <<wizardVars, panelVars>>

ScoreNext ==
    \/ ScoreAnswers
    \/ ScoreTotal

ScoreSpec == ScoreInit /\ [][ScoreNext]_vars

-----------------------------------------------------------------------------
(***************************************************************************)
(* MainDashboard (App.js): the sidebar, the tab shown, and the dashboard   *)
(* data fetched whenever the dashboard tab is entered.                     *)
(***************************************************************************)

MaxDashFetches == 2

\* Mutant: the documents item carries an id renderContent has no case for.
menuItems_DocsTypo ==
    <<"dashboard", "assessment", "chat", "news", "articles", "documents",
      "timeline">>

\* The ids of Sidebar's menuItems, in order.
menuItems ==
    <<"dashboard", "assessment", "chat", "news", "articles", "docs",
      "timeline">>

MenuIds == { menuItems[i] : i \in 1..Len(menuItems) }

\* The targets of the quick-action buttons of the dashboard tab.
QuickActionTabs ==
    {"assessment", "chat", "news", "articles", "docs", "timeline"}

NotFound == "Contenido no encontrado"

\* The switch of renderContent: the section rendered for a tab.
renderContent(tab) ==
    CASE tab = "dashboard" -> "DashboardHome"
      [] tab = "assessment" -> "AssessmentComponent"
      [] tab = "chat" -> "ChatComponent"
      [] tab = "news" -> "NewsComponent"
      [] tab = "articles" -> "ArticlesComponent"
      [] tab = "docs" -> "DocumentsComponent"
      [] tab = "timeline" -> "TimelineComponent"
      [] OTHER -> NotFound

\* The keys of getRiskBadge's configs.
RiskLevels == {"minimal", "limited", "high", "unacceptable"}

\* The badge text of a record: configs[riskLevel] || configs.minimal.
getRiskBadge(riskLevel) ==
    CASE riskLevel = "minimal" -> "Riesgo Mínimo"
      [] riskLevel = "limited" -> "Riesgo Limitado"
      [] riskLevel = "high" -> "Alto Riesgo"
      [] riskLevel = "unacceptable" -> "Riesgo Inaceptable"
      [] OTHER -> "Riesgo Mínimo"

\* The mock statistics of demo mode.
DemoStats == "demo_stats"

\* The mock assessments of demo mode: 6.2 / medium and 7.8 / high.
DemoAssessments ==
    << [id |-> "demo-1", risk_score |-> 62 * (Scale \div 10),
        risk_level |-> "medium"],
       [id |-> "demo-2", risk_score |-> 78 * (Scale \div 10),
        risk_level |-> "high"] >>

\* An assessment as the backend stored it when it scored it.
StoredAssessment(total) ==
    [id |-> "stored", risk_score |-> Clamp(total),
     risk_level |-> RiskLevel(Clamp(total))]

\* The totals of the assessments the backend may hold.
StoredTotals == {MinScore, LimitedFrom, HighFrom, UnacceptableFrom}

\* What GET /assessments may return: at most two stored assessments.
ServerAssessments ==
    {<< >>}
    \cup { <<StoredAssessment(t)>> : t \in StoredTotals }
    \cup { <<StoredAssessment(t), StoredAssessment(u)>> :
              t \in StoredTotals, u \in StoredTotals }

ServerStats == "server_stats"

\* MainDashboard after its first render, the effect not yet run.
DashInit ==
    /\ activeTab = "dashboard"
    /\ stats = Null
    /\ assessments = << >>
    /\ dashboardLoading = TRUE
    /\ isDemo \in BOOLEAN
    /\ dashFetches = 0
    /\ dashEffect = TRUE
    /\ WizardInit
    /\ ScoreIdle
    /\ AuthIdle
    /\ ChatIdle
    /\ AdminIdle

dashFrame == <<wizardVars, scoreVars, authVars, chatVars, adminVars>>

\* setActiveTab(id); the effect is due when the value changed.
setActiveTab(id) ==
    /\ activeTab' = id
    /\ dashEffect' = (id # activeTab)
    /\ UNCHANGED <<stats, assessments, dashboardLoading, isDemo, dashFetches>>

\* The user clicks an item of the sidebar.
SidebarClick ==
    /\ ~dashEffect
    /\ \E i \in 1..Len(menuItems) : setActiveTab(menuItems[i])
    /\ UNCHANGED dashFrame

\* The user clicks a quick-action button of the dashboard tab.
QuickAction ==
    /\ ~dashEffect
    /\ activeTab = "dashboard"
    /\ \E id \in QuickActionTabs : setActiveTab(id)
    /\ UNCHANGED dashFrame

\* fetchDashboardData up to its return (demo) or its await.
fetchDashboardData ==
    IF isDemo
        THEN /\ stats' = DemoStats
             /\ assessments' = DemoAssessments
             /\ dashboardLoading' = FALSE
             /\ UNCHANGED dashFetches
        ELSE /\ dashFetches < MaxDashFetches
             /\ dashFetches' = dashFetches + 1
             /\ UNCHANGED <<stats, assessments, dashboardLoading>>

\* The effect on [activeTab] runs after the render.
DashboardEffect ==
    /\ dashEffect
    /\ dashEffect' = FALSE
    /\ IF activeTab = "dashboard"
          THEN fetchDashboardData
          ELSE UNCHANGED <<stats, assessments, dashboardLoading, dashFetches>>
    /\ UNCHANGED <<activeTab, isDemo>>
    /\ UNCHANGED dashFrame

\* Promise.all resolves: setStats, setAssessments, then the finally block.
DashFetchResolves ==
    /\ dashFetches > 0
    /\ dashFetches' = dashFetches - 1
    /\ stats' = ServerStats
    /\ assessments' \in ServerAssessments
    /\ dashboardLoading' = FALSE
    /\ UNCHANGED <<activeTab, isDemo, dashEffect>>
    /\ UNCHANGED dashFrame

\* Promise.all rejects: the catch block logs, then the finally block.
DashFetchRejects ==
    /\ dashFetches > 0
    /\ dashFetches' = dashFetches - 1
    /\ dashboardLoading' = FALSE
    /\ UNCHANGED <<activeTab, stats, assessments, isDemo, dashEffect>>
    /\ UNCHANGED dashFrame

DashNext ==
    \/ SidebarClick
    \/ QuickAction
    \/ DashboardEffect
    \/ DashFetchResolves
    \/ DashFetchRejects

DashSpec == DashInit /\ [][DashNext]_vars

-----------------------------------------------------------------------------
(***************************************************************************)
(* The token-validating AuthProvider: login, logout, the effect on [token] *)
(* and the validation request it sends.                                    *)
(***************************************************************************)

MaxValidations == 3

\* A sequence without its i-th element.
RemoveAt(seq, i) ==
    [k \in 1..(Len(seq) - 1) |-> IF k < i THEN seq[k] ELSE seq[k + 1]]

\* The users and access tokens the backend may hand to login.
UserData == {"user_a", "user_b"}

AuthTokens == {"token_a", "token_b"}

\* JSON.parse('{}'): an object without fields.
EmptyUser == "{}"

\* JSON.stringify(userData): the text kept in localStorage.
JSONstringify(userData) == <<"json", userData>>

\* JSON.parse(text) of a text JSON.stringify produced.
JSONparse(text) == text[2]

\* localStorage.getItem('user') || '{}'
StoredUserOrEmpty == IF storedUser = NoItem THEN JSONstringify(EmptyUser)
                                             ELSE storedUser

\* The provider after its first render: the token of an earlier visit, when
\* there is one, was read from localStorage; the effect has not yet run.
AuthInit ==
    /\ user = Null
    /\ \/ /\ storedToken = Null
          /\ storedUser = NoItem
       \/ /\ storedToken \in AuthTokens
          /\ \E u \in UserData : storedUser = JSONstringify(u)
    /\ token = storedToken
    /\ authHeader = Null
    /\ authLoading = TRUE
    /\ validating = << >>
    /\ authEffect = TRUE
    /\ WizardInit
    /\ ScoreIdle
    /\ DashIdle
    /\ ChatIdle
    /\ AdminIdle

authFrame == <<wizardVars, scoreVars, dashVars, chatVars, adminVars>>

\* The effect on [token]: with a token, set the header and send the
\* validation request; without one, stop loading.
AuthEffect ==
    /\ authEffect
    /\ authEffect' = FALSE
    /\ IF token # Null
          THEN /\ Len(validating) < MaxValidations
               /\ authHeader' = token
               /\ validating' = Append(validating, token)
               /\ UNCHANGED authLoading
          ELSE /\ authLoading' = FALSE
               /\ UNCHANGED <<authHeader, validating>>
    /\ UNCHANGED <<user, token, storedToken, storedUser>>
    /\ UNCHANGED authFrame

\* A validation request resolves: .then reads the stored user, .finally.
ValidationSucceeds ==
    /\ ~authEffect
    /\ \E i \in 1..Len(validating) : validating' = RemoveAt(validating, i)
    /\ user' = JSONparse(StoredUserOrEmpty)
    /\ authLoading' = FALSE
    /\ UNCHANGED <<token, storedToken, storedUser, authHeader, authEffect>>
    /\ UNCHANGED authFrame

\* A validation request rejects: .catch drops the token, .finally.
ValidationFails ==
    /\ ~authEffect
    /\ \E i \in 1..Len(validating) : validating' = RemoveAt(validating, i)
    /\ storedToken' = Null
    /\ storedUser' = NoItem
    /\ token' = Null
    /\ authEffect' = (token # Null)
    /\ authHeader' = Null
    /\ authLoading' = FALSE
    /\ UNCHANGED user
    /\ UNCHANGED authFrame

\* login(userData, authToken), called by the auth form once its POST
\* resolved; the form is routed only while user is null.
Login ==
    /\ ~authEffect
    /\ ~authLoading
    /\ user = Null
    /\ \E userData \in UserData, authToken \in AuthTokens :
          /\ user' = userData
          /\ token' = authToken
          /\ storedToken' = authToken
          /\ storedUser' = JSONstringify(userData)
          /\ authHeader' = authToken
          /\ authEffect' = (authToken # token)
    /\ UNCHANGED <<authLoading, validating>>
    /\ UNCHANGED authFrame

\* logout(), the button of the dashboard, routed only while user is set.
Logout ==
    /\ ~authEffect
    /\ ~authLoading
    /\ user # Null
    /\ user' = Null
    /\ token' = Null
    /\ storedToken' = Null
    /\ storedUser' = NoItem
    /\ authHeader' = Null
    /\ authEffect' = (token # Null)
    /\ UNCHANGED <<authLoading, validating>>
    /\ UNCHANGED authFrame

AuthNext ==
    \/ AuthEffect
    \/ ValidationSucceeds
    \/ ValidationFails
    \/ Login
    \/ Logout

AuthSpec == AuthInit /\ [][AuthNext]_vars

-----------------------------------------------------------------------------
(***************************************************************************)
(* ChatComponent (App.js): sessions, the selected session, its messages,   *)
(* and the requests the handlers await.  A message is modelled by the id   *)
(* of the session it belongs to.                                           *)
(***************************************************************************)

MaxChatRequests == 2

MaxExchanges == 1

\* The ids the backend gives to the sessions it creates, in order.
ChatSessionIds == <<"session_1", "session_2">>

\* The texts the user may have in the input box.
MessageTexts == {"", "consulta"}

\* response.data.messages of a session with n stored exchanges.
MessagesOf(sessionId, n) == [k \in 1..(2 * n) |-> sessionId]

\* A request in flight: what was asked, for which session, and the
\* currentSession the handler's closure holds.
ChatRequest(kind, sessionId, closure) ==
    [kind |-> kind, session |-> sessionId, closure |-> closure]

\* The component after its mount on a backend without sessions.
ChatInit ==
    /\ sessions = {}
    /\ currentSession = Null
    /\ messages = << >>
    /\ newMessage = ""
    /\ chatLoading = FALSE
    /\ chatRequests = << >>
    /\ srvSessions = {}
    /\ srvCreated = 0
    /\ srvMessages = << >>
    /\ WizardInit
    /\ ScoreIdle
    /\ DashIdle
    /\ AuthIdle
    /\ AdminIdle

chatFrame == <<wizardVars, scoreVars, dashVars, authVars, adminVars>>

\* fetchSessions inside a handler: setSessions of what the backend lists,
\* or nothing when its GET rejects (fetchSessions catches that itself).
fetchSessions(listed) == sessions' \in {listed, sessions}

\* The user clicks Nueva Consulta: createNewSession up to its await.
CreateNewSession ==
    /\ Len(chatRequests) < MaxChatRequests
    /\ srvCreated + Len(SelectSeq(chatRequests, LAMBDA r : r.kind = "create"))
          < Len(ChatSessionIds)
    /\ chatRequests' = Append(chatRequests, ChatRequest("create", Null, Null))
    /\ UNCHANGED <<sessions, currentSession, messages, newMessage,
                   chatLoading, srvSessions, srvCreated, srvMessages>>
    /\ UNCHANGED chatFrame

\* The POST of createNewSession resolves, fetchSessions returns, the new
\* session is selected.
CreateResolves ==
    /\ \E i \in 1..Len(chatRequests) :
          /\ chatRequests[i].kind = "create"
          /\ chatRequests' = RemoveAt(chatRequests, i)
    /\ LET id == ChatSessionIds[srvCreated + 1]
       IN  /\ srvCreated' = srvCreated + 1
           /\ srvSessions' = srvSessions \cup {id}
           /\ srvMessages' = [s \in srvSessions \cup {id} |->
                                 IF s = id THEN 0 ELSE srvMessages[s]]
           /\ fetchSessions(srvSessions \cup {id})
           /\ currentSession' = id
           /\ messages' = << >>
    /\ UNCHANGED <<newMessage, chatLoading>>
    /\ UNCHANGED chatFrame

\* The user clicks a session of the list: loadSession up to its await.
LoadSession ==
    /\ Len(chatRequests) < MaxChatRequests
    /\ \E sessionId \in sessions :
          /\ currentSession' = sessionId
          /\ chatRequests' =
                Append(chatRequests, ChatRequest("load", sessionId, Null))
    /\ UNCHANGED <<sessions, messages, newMessage, chatLoading,
                   srvSessions, srvCreated, srvMessages>>
    /\ UNCHANGED chatFrame

\* The GET of loadSession resolves: setMessages(response.data.messages).
LoadResolves ==
    /\ \E i \in 1..Len(chatRequests) :
          /\ chatRequests[i].kind = "load"
          /\ chatRequests[i].session \in srvSessions
          /\ chatRequests' = RemoveAt(chatRequests, i)
          /\ messages' = MessagesOf(chatRequests[i].session,
                                    srvMessages[chatRequests[i].session])
    /\ UNCHANGED <<sessions, currentSession, newMessage, chatLoading,
                   srvSessions, srvCreated, srvMessages>>
    /\ UNCHANGED chatFrame

\* The user edits the input box, rendered while a session is selected.
SetNewMessage ==
    /\ currentSession # Null
    /\ newMessage' \in MessageTexts \ {newMessage}
    /\ UNCHANGED <<sessions, currentSession, messages, chatLoading,
                   chatRequests, srvSessions, srvCreated, srvMessages>>
    /\ UNCHANGED chatFrame

\* sendMessage up to its await; it returns at once without a text or a
\* selected session.
sendMessage ==
    /\ newMessage # ""
    /\ currentSession # Null
    /\ Len(chatRequests) < MaxChatRequests
    /\ chatLoading' = TRUE
    /\ chatRequests' =
          Append(chatRequests, ChatRequest("send", currentSession, Null))
    /\ UNCHANGED <<sessions, currentSession, messages, newMessage,
                   srvSessions, srvCreated, srvMessages>>

\* The user clicks the send button.
SendClick ==
    /\ currentSession # Null
    /\ ~(chatLoading \/ newMessage = "")
    /\ sendMessage
    /\ UNCHANGED chatFrame

\* The user presses Enter (without Shift) in the input box.
EnterKey ==
    /\ currentSession # Null
    /\ sendMessage
    /\ UNCHANGED chatFrame

\* The POST of sendMessage resolves: the two messages are appended, the
\* input is cleared, then the finally block.
SendResolves ==
    /\ \E i \in 1..Len(chatRequests) :
          LET sessionId == chatRequests[i].session
          IN  /\ chatRequests[i].kind = "send"
              /\ sessionId \in srvSessions
              /\ srvMessages[sessionId] < MaxExchanges
              /\ chatRequests' = RemoveAt(chatRequests, i)
              /\ srvMessages' =
                    [srvMessages EXCEPT ![sessionId] = @ + 1]
              /\ messages' = messages \o <<sessionId, sessionId>>
    /\ newMessage' = ""
    /\ chatLoading' = FALSE
    /\ UNCHANGED <<sessions, currentSession, srvSessions, srvCreated>>
    /\ UNCHANGED chatFrame

\* The user clicks the delete icon of a session: deleteSession up to its
\* await.
DeleteSession ==
    /\ Len(chatRequests) < MaxChatRequests
    /\ \E sessionId \in sessions :
          chatRequests' =
              Append(chatRequests,
                     ChatRequest("delete", sessionId, currentSession))
    /\ UNCHANGED <<sessions, currentSession, messages, newMessage,
                   chatLoading, srvSessions, srvCreated, srvMessages>>
    /\ UNCHANGED chatFrame

\* The DELETE resolves, fetchSessions returns, and the selection is
\* cleared when the closure's currentSession is the deleted session.
DeleteResolves ==
    /\ \E i \in 1..Len(chatRequests) :
          LET sessionId == chatRequests[i].session
          IN  /\ chatRequests[i].kind = "delete"
              /\ sessionId \in srvSessions
              /\ chatRequests' = RemoveAt(chatRequests, i)
              /\ srvSessions' = srvSessions \ {sessionId}
              /\ srvMessages' = [s \in srvSessions \ {sessionId} |->
                                    srvMessages[s]]
              /\ fetchSessions(srvSessions \ {sessionId})
              /\ IF chatRequests[i].closure = sessionId
                    THEN /\ currentSession' = Null
                         /\ messages' = << >>
                    ELSE UNCHANGED <<currentSession, messages>>
    /\ UNCHANGED <<newMessage, chatLoading, srvCreated>>
    /\ UNCHANGED chatFrame

\* A request rejects: the catch block logs; sendMessage's finally block
\* resets chatLoading.
ChatRequestRejects ==
    /\ \E i \in 1..Len(chatRequests) :
          /\ chatRequests' = RemoveAt(chatRequests, i)
          /\ chatLoading' =
                IF chatRequests[i].kind = "send" THEN FALSE ELSE chatLoading
    /\ UNCHANGED <<sessions, currentSession, messages, newMessage,
                   srvSessions, srvCreated, srvMessages>>
    /\ UNCHANGED chatFrame

ChatNext ==
    \/ CreateNewSession
    \/ CreateResolves
    \/ LoadSession
    \/ LoadResolves
    \/ SetNewMessage
    \/ SendClick
    \/ EnterKey
    \/ SendResolves
    \/ DeleteSession
    \/ DeleteResolves
    \/ ChatRequestRejects

ChatSpec == ChatInit /\ [][ChatNext]_vars

-----------------------------------------------------------------------------
(***************************************************************************)
(* AdminPanel (AdminPanel.js): the admin login, the data fetch, and the    *)
(* manual update with its updating flag.                                   *)
(***************************************************************************)

MaxAdminFetches == 2

\* The arguments the four update buttons pass to runManualUpdate.
UpdateTypes == {"all", "documents", "news", "articles"}

AdminToken == "admin_token"

AdminData == "admin_data"

\* The panel after its first render: an admin token of an earlier visit may
\* be stored; the mount effect has not yet run.
AdminInit ==
    /\ isAuthenticated = FALSE
    /\ adminToken \in {Null, AdminToken}
    /\ adminLoading = FALSE
    /\ dashboardData = Null
    /\ updating = FALSE
    /\ updateStage = "idle"
    /\ updateType = "all"
    /\ adminFetches = 0
    /\ adminEffect = TRUE
    /\ WizardInit
    /\ ScoreIdle
    /\ DashIdle
    /\ AuthIdle
    /\ ChatIdle

adminFrame == <<wizardVars, scoreVars, dashVars, authVars, chatVars>>

\* The mount effect: with a stored token, show the panel and fetch.
AdminMountEffect ==
    /\ adminEffect
    /\ adminEffect' = FALSE
    /\ IF adminToken # Null
          THEN /\ isAuthenticated' = TRUE
               /\ adminFetches' = adminFetches + 1
          ELSE UNCHANGED <<isAuthenticated, adminFetches>>
    /\ UNCHANGED <<adminToken, adminLoading, dashboardData, updating,
                   updateStage, updateType>>
    /\ UNCHANGED adminFrame

\* The login form is submitted: login up to its await.
AdminLogin ==
    /\ ~adminEffect
    /\ ~isAuthenticated
    /\ ~adminLoading
    /\ adminLoading' = TRUE
    /\ UNCHANGED <<isAuthenticated, adminToken, dashboardData, updating,
                   updateStage, updateType, adminFetches, adminEffect>>
    /\ UNCHANGED adminFrame

\* POST /admin/login resolves: the token is stored, the panel is shown and
\* fetchDashboardData is called without being awaited.
AdminLoginResolves ==
    /\ adminLoading
    /\ adminFetches < MaxAdminFetches
    /\ adminToken' = AdminToken
    /\ isAuthenticated' = TRUE
    /\ adminFetches' = adminFetches + 1
    /\ adminLoading' = FALSE
    /\ UNCHANGED <<dashboardData, updating, updateStage, updateType,
                   adminEffect>>
    /\ UNCHANGED adminFrame

\* POST /admin/login rejects: the error is shown, then the finally block.
AdminLoginRejects ==
    /\ adminLoading
    /\ adminLoading' = FALSE
    /\ UNCHANGED <<isAuthenticated, adminToken, dashboardData, updating,
                   updateStage, updateType, adminFetches, adminEffect>>
    /\ UNCHANGED adminFrame

\* fetchDashboardData from its await on: the three GETs resolved ("ok"),
\* were refused with 401 ("unauthorized"), or failed otherwise ("failed").
\* Its catch block swallows every error.
fetchAdminDataSettles(outcome) ==
    CASE outcome = "ok" ->
            /\ dashboardData' = AdminData
            /\ UNCHANGED <<isAuthenticated, adminToken>>
      [] outcome = "unauthorized" ->
            /\ isAuthenticated' = FALSE
            /\ adminToken' = Null
            /\ UNCHANGED dashboardData
      [] OTHER ->
            UNCHANGED <<dashboardData, isAuthenticated, adminToken>>

FetchOutcomes == {"ok", "unauthorized", "failed"}

\* A fetchDashboardData call of the login or of the mount effect settles.
AdminFetchSettles ==
    /\ adminFetches > 0
    /\ adminFetches' = adminFetches - 1
    /\ \E outcome \in FetchOutcomes : fetchAdminDataSettles(outcome)
    /\ UNCHANGED <<adminLoading, updating, updateStage, updateType,
                   adminEffect>>
    /\ UNCHANGED adminFrame

\* One of the four update buttons is clicked; they are rendered on the
\* panel and disabled while updating.  runManualUpdate up to its POST.
RunManualUpdate ==
    /\ ~adminEffect
    /\ isAuthenticated
    /\ ~updating
    /\ updating' = TRUE
    /\ updateStage' = "posting"
    /\ updateType' \in UpdateTypes
    /\ UNCHANGED <<isAuthenticated, adminToken, adminLoading, dashboardData,
                   adminFetches, adminEffect>>
    /\ UNCHANGED adminFrame

\* POST /admin/update resolves: runManualUpdate awaits fetchDashboardData.
UpdatePostResolves ==
    /\ updateStage = "posting"
    /\ updateStage' = "refreshing"
    /\ UNCHANGED <<isAuthenticated, adminToken, adminLoading, dashboardData,
                   updating, updateType, adminFetches, adminEffect>>
    /\ UNCHANGED adminFrame

\* Mutant: the flag is reset at the end of the try body, not in a finally.
UpdatePostRejects_NoFinally ==
    /\ updateStage = "posting"
    /\ updateStage' = "idle"
    /\ UNCHANGED <<isAuthenticated, adminToken, adminLoading, dashboardData,
                   updating, updateType, adminFetches, adminEffect>>
    /\ UNCHANGED adminFrame

\* POST /admin/update rejects: the catch block alerts, then the finally
\* block.
UpdatePostRejects ==
    /\ updateStage = "posting"
    /\ updateStage' = "idle"
    /\ updating' = FALSE
    /\ UNCHANGED <<isAuthenticated, adminToken, adminLoading, dashboardData,
                   updateType, adminFetches, adminEffect>>
    /\ UNCHANGED adminFrame

\* The awaited fetchDashboardData returns: the alert, then the finally
\* block.
UpdateRefreshSettles ==
    /\ updateStage = "refreshing"
    /\ \E outcome \in FetchOutcomes : fetchAdminDataSettles(outcome)
    /\ updateStage' = "idle"
    /\ updating' = FALSE
    /\ UNCHANGED <<adminLoading, updateType, adminFetches, adminEffect>>
    /\ UNCHANGED adminFrame

\* Cerrar Sesion removes the token and navigates away; the panel is mounted
\* afresh when the admin route is entered again.  The callbacks of the
\* instance that went away no longer reach any state.
AdminLogout ==
    /\ ~adminEffect
    /\ isAuthenticated
    /\ adminToken' = Null
    /\ isAuthenticated' = FALSE
    /\ adminLoading' = FALSE
    /\ dashboardData' = Null
    /\ updating' = FALSE
    /\ updateStage' = "idle"
    /\ updateType' = "all"
    /\ adminFetches' = 0
    /\ adminEffect' = TRUE
    /\ UNCHANGED adminFrame

AdminNext ==
    \/ AdminMountEffect
    \/ AdminLogin
    \/ AdminLoginResolves
    \/ AdminLoginRejects
    \/ AdminFetchSettles
    \/ RunManualUpdate
    \/ UpdatePostResolves
    \/ UpdatePostRejects
    \/ UpdateRefreshSettles
    \/ AdminLogout

AdminSpec == AdminInit /\ [][AdminNext]_vars

\* The requests of runManualUpdate complete: every HTTP request settles.
AdminFairSpec ==
    /\ AdminSpec
    /\ WF_vars(UpdatePostResolves \/ UpdatePostRejects)
    /\ WF_vars(UpdateRefreshSettles)

----------------------------------------------------------------------------
\* Helpers of the properties below.

\* The step index of the last question.
LastStep == QuestionCount - 1

\* The recorded answer of a question, "" when it has none.
AnswerOf(resp, qid) == RadioValue(resp, qid)

\* A wizard operation (not a fresh mount) has just run.
WizardOp(op) == op \in {"handleAnswer", "handleNext", "handlePrevious"}

\* C1: in every state reachable by selecting answers, advancing and
\* retreating, 0 <= currentStepIndex <= questionCount.
C1_StepInRange == 0 <= currentStep /\ currentStep <= QuestionCount

C1_Witness ==
    /\ currentStep = LastStep
    /\ lastOp = "handleAnswer"
    /\ DOMAIN responses = QuestionIds

\* C2 as stated: whenever the current question has an answer, advance
\* succeeds and increases the step index by exactly 1.
C2_Original == [][lastOp' = "handleNext" => currentStep' = currentStep + 1]_vars

\* C2 amended: while the form is shown, advance is available exactly when the
\* current question has an answer; it adds 1 to the step index at every step
\* but the last, and at the last step it leaves the index alone and submits
\* the answers.
C2_AdvanceGate ==
    /\ [](FormShown =>
            (ENABLED HandleNext <=>
                AnswerOf(responses, currentQuestion.id) # ""))
    /\ [][lastOp' = "handleNext" =>
            /\ AnswerOf(responses, currentQuestion.id) # ""
            /\ IF currentStep < LastStep
                  THEN /\ currentStep' = currentStep + 1
                       /\ pending' = pending
                  ELSE /\ currentStep' = currentStep
                       /\ pending' = Append(pending, responses)]_vars

C2_Witness ==
    /\ lastOp = "handleNext"
    /\ currentStep = LastStep
    /\ assessmentLoading
    /\ Len(pending) = 1

\* C3: every question below the current step has a recorded answer, and an
\* answer set submitted for scoring has an entry for every question id.
C3_SubmittedComplete ==
    /\ \A i \in 0..(currentStep - 1) :
          AnswerOf(responses, questions[i + 1].id) # ""
    /\ \A k \in 1..Len(pending) :
          \A qid \in QuestionIds : AnswerOf(pending[k], qid) # ""

C3_Witness ==
    /\ Len(pending) = 1
    /\ DOMAIN pending[1] = QuestionIds
    /\ pending[1]["human_oversight"] = "none"

\* C4 as stated: the answer set is handed over only in the terminal state,
\* where the step index equals questionCount.
C4_Original == pending # << >> => currentStep = QuestionCount

\* C4 amended: the answer set is handed over only by advancing from the last
\* question, at step index questionCount - 1; at every lower index advancing
\* hands nothing over.
C4_SubmitOnlyAtLastStep ==
    /\ [](pending # << >> => currentStep = LastStep)
    /\ [][pending' # pending /\ pending' # << >> =>
            /\ currentStep = LastStep
            /\ lastOp' = "handleNext"
            /\ pending' = Append(pending, responses)]_vars
    /\ [][lastOp' = "handleNext" /\ currentStep < LastStep =>
            pending' = pending /\ ~assessmentLoading']_vars

C4_Witness ==
    /\ pending # << >>
    /\ currentStep = LastStep
    /\ pending[1] = responses

\* C5 as stated: a successful advance from the last question moves the
\* wizard to the terminal index questionCount.
C5_Original ==
    [][lastOp' = "handleNext" /\ currentStep = LastStep =>
            currentStep' = QuestionCount]_vars

\* C5 amended: completion is advancing from the last question: that advance
\* leaves the step index at questionCount - 1 and starts the submission; the
\* step index never equals questionCount.
C5_CompletionAtLastStep ==
    /\ [](currentStep # QuestionCount)
    /\ [][lastOp' = "handleNext" /\ currentStep = LastStep =>
            /\ currentStep' = LastStep
            /\ assessmentLoading'
            /\ Len(pending') = Len(pending) + 1]_vars
    /\ [][assessmentLoading' /\ ~assessmentLoading =>
            lastOp' = "handleNext" /\ currentStep = LastStep]_vars

C5_Witness ==
    /\ assessmentLoading
    /\ lastOp = "handleNext"
    /\ result = Null

\* C6: retreat followed by advance, with no selection in between, succeeds
\* and gives back the step index and the answers the wizard had.
C6_RetreatAdvanceRoundTrip ==
    /\ [](lastOp = "handlePrevious" => ENABLED HandleNext)
    /\ [][lastOp = "handlePrevious" /\ lastOp' = "handleNext" =>
            /\ currentStep' = retreatedFrom.step
            /\ responses' = retreatedFrom.responses
            /\ pending' = pending]_vars

C6_Witness ==
    /\ lastOp = "handlePrevious"
    /\ retreatedFrom.step = LastStep
    /\ AnswerOf(responses, questions[QuestionCount].id) = ""

\* C7: retreat decreases the step index by exactly 1 when it is above 0,
\* leaves it at 0 when it is 0, and leaves every recorded answer unchanged.
C7_RetreatFrame ==
    /\ [][lastOp' = "handlePrevious" =>
            /\ currentStep > 0
            /\ currentStep' = currentStep - 1
            /\ responses' = responses]_vars
    /\ [](currentStep = 0 =>
            handlePrevious(currentStep) = 0 /\ ~ENABLED HandlePrevious)

C7_Witness ==
    /\ lastOp = "handlePrevious"
    /\ currentStep = 0
    /\ DOMAIN responses = {questions[1].id, questions[2].id}

C9_AnswersAreOptions ==
    \A qid \in DOMAIN responses :
        qid \in QuestionIds /\ responses[qid] \in OptionsOf(qid)

C9_Witness ==
    /\ DOMAIN responses = QuestionIds
    /\ responses["transparency"] = "minimal"
    /\ lastOp = "handleAnswer"

\* C10: a wizard operation changes the step index by at most 1, and the
\* question shown depends on the step index alone, not on the answers.
C10_UnitSteps ==
    /\ [][WizardOp(lastOp') =>
            \/ currentStep' = currentStep
            \/ currentStep' = currentStep + 1 /\ lastOp' = "handleNext"
            \/ currentStep' = currentStep - 1 /\ lastOp' = "handlePrevious"]_vars
    /\ [][currentStep' = currentStep => currentQuestion' = currentQuestion]_vars
    /\ [](currentQuestion.id = questions[currentStep + 1].id)

C10_Witness ==
    /\ lastOp = "handlePrevious"
    /\ currentStep = 3
    /\ DOMAIN responses = QuestionIds

C12_SelectAnswerFrame ==
    /\ [][lastOp' = "handleAnswer" =>
            /\ currentStep' = currentStep
            /\ DOMAIN responses' = (DOMAIN responses) \cup {currentQuestion.id}
            /\ \A qid \in (DOMAIN responses) \ {currentQuestion.id} :
                  responses'[qid] = responses[qid]
            /\ responses'[currentQuestion.id] \in RadioItems(currentStep)
            /\ <<assessmentLoading, result, pending>> =
                  <<assessmentLoading, result, pending>>']_vars
    /\ [](FormShown =>
            \A value \in RadioItems(currentStep) :
                handleAnswer(responses, currentQuestion.id, value)
                    [currentQuestion.id] = value)

C12_Witness ==
    /\ lastOp = "handleAnswer"
    /\ currentStep = 0
    /\ Cardinality(DOMAIN responses) = 3

\* C13: a fresh mount of the wizard is at step 0 with no answers, no
\* result, no submission in flight.
C13_StartFresh ==
    lastOp = "start" =>
        /\ currentStep = 0
        /\ responses = << >>
        /\ DOMAIN responses = {}
        /\ result = Null
        /\ ~assessmentLoading
        /\ pending = << >>

C13_Witness ==
    /\ lastOp = "start"
    /\ FormShown
    /\ NextDisabled
    /\ PreviousDisabled

----------------------------------------------------------------------------
\* Helpers of the scoring properties.

\* score has returned a result (not an error) for what it was handed.
Scored == scDone /\ scResult.error = "none"

\* The contribution the rule table gives to one answer.
DeltaOf(qid, value) ==
    LET n == CHOOSE k \in 1..Len(RuleTable) :
                RuleTable[k].questionId = qid /\ RuleTable[k].value = value
    IN  RuleTable[n].scoreDelta

\* The contributions of the answers, summed question by question.
RECURSIVE ContributionSum(_, _)
ContributionSum(answers, i) ==
    IF i = 0
        THEN 0
        ELSE ContributionSum(answers, i - 1) +
             DeltaOf(questions[i].id, answers[questions[i].id])

\* The total score was computed from.
TotalScored ==
    IF scKind = "answers"
        THEN ContributionSum(scAnswers, QuestionCount)
        ELSE scTotal

LevelRank(riskLevel) ==
    CASE riskLevel = "minimal" -> 0
      [] riskLevel = "limited" -> 1
      [] riskLevel = "high" -> 2
      [] riskLevel = "unacceptable" -> 3

\* The answer set with one answer replaced.
Replace(answers, qid, value) == [answers EXCEPT ![qid] = value]

\* C14: risk_score is the sum of the triggered contributions saturated to
\* [0.0, 10.0]: above 10 it is exactly 10, below 0 exactly 0, else the sum.
C14_ClampInvariant ==
    Scored =>
        /\ 0 <= scResult.risk_score
        /\ scResult.risk_score <= 10 * Scale
        /\ TotalScored > 10 * Scale => scResult.risk_score = 10 * Scale
        /\ TotalScored < 0 => scResult.risk_score = 0
        /\ (0 <= TotalScored /\ TotalScored <= 10 * Scale) =>
              scResult.risk_score = TotalScored

C14_Witness ==
    /\ scDone
    /\ scKind = "answers"
    /\ IsCompleteAnswerSet(scAnswers)
    /\ TotalScored > 10 * Scale
    /\ scResult.risk_score = 10 * Scale

\* C15: the bands are inclusive on their lower bound: below 2.5 minimal,
\* from 2.5 below 5.0 limited, from 5.0 below 7.5 high, from 7.5 unacceptable.
C15_BandBoundaries ==
    Scored =>
        /\ scResult.risk_score < 25 * (Scale \div 10) <=>
              scResult.risk_level = "minimal"
        /\ (/\ 25 * (Scale \div 10) <= scResult.risk_score
            /\ scResult.risk_score < 5 * Scale) <=>
              scResult.risk_level = "limited"
        /\ (/\ 5 * Scale <= scResult.risk_score
            /\ scResult.risk_score < 75 * (Scale \div 10)) <=>
              scResult.risk_level = "high"
        /\ 75 * (Scale \div 10) <= scResult.risk_score <=>
              scResult.risk_level = "unacceptable"

C15_Witness ==
    /\ scDone
    /\ scKind = "total"
    /\ scTotal = 25 * (Scale \div 10)
    /\ scResult.risk_level = "limited"

\* C16: compliance_status is decided by risk_level alone: minimal gives
\* compliant, limited and high give partially_compliant, unacceptable gives
\* non_compliant; not_assessed is never returned.
C16_ComplianceMapping ==
    Scored =>
        /\ scResult.risk_level \in {"minimal", "limited", "high", "unacceptable"}
        /\ scResult.compliance_status # "not_assessed"
        /\ scResult.risk_level = "minimal" =>
              scResult.compliance_status = "compliant"
        /\ scResult.risk_level \in {"limited", "high"} =>
              scResult.compliance_status = "partially_compliant"
        /\ scResult.risk_level = "unacceptable" =>
              scResult.compliance_status = "non_compliant"

C16_Witness ==
    /\ scDone
    /\ scKind = "answers"
    /\ scResult.error = "none"
    /\ scResult.risk_level = "high"
    /\ scResult.compliance_status = "partially_compliant"

\* C17: replacing one answer of a complete answer set by an option with a
\* strictly higher contribution never lowers risk_score nor risk_level.
C17_Monotonic ==
    (Scored /\ scKind = "answers") =>
        \A qid \in QuestionIds :
            \A value \in OptionsOf(qid) :
                DeltaOf(qid, value) > DeltaOf(qid, scAnswers[qid]) =>
                    LET higher == score(Replace(scAnswers, qid, value))
                    IN  /\ higher.error = "none"
                        /\ higher.risk_score >= scResult.risk_score
                        /\ LevelRank(higher.risk_level) >=
                              LevelRank(scResult.risk_level)

C17_Witness ==
    /\ scDone
    /\ scKind = "answers"
    /\ scResult.error = "none"
    /\ scResult.risk_score = MaxScore
    /\ scAnswers["human_oversight"] = "continuous"

\* C19: an answer set that lacks a question id gets IncompleteAnswerSetError
\* and nothing of a result; one with a value for every id gets a result.
C19_IncompleteRejected ==
    (scDone /\ scKind = "answers") =>
        IF \E qid \in QuestionIds : qid \notin DOMAIN scAnswers
            THEN /\ scResult.error = "IncompleteAnswerSetError"
                 /\ DOMAIN scResult = {"error"}
            ELSE /\ scResult.error = "none"
                 /\ DOMAIN scResult =
                       {"error", "risk_score", "risk_level",
                        "compliance_status", "recommendations"}

C19_Witness ==
    /\ scDone
    /\ scKind = "answers"
    /\ Cardinality(DOMAIN scAnswers) = QuestionCount - 1
    /\ "emotion_recognition" \notin DOMAIN scAnswers
    /\ scResult.error = "IncompleteAnswerSetError"

\* The rules of the table that the answer set triggers and that carry a
\* recommendation.
Recommending(answers) ==
    { n \in 1..Len(RuleTable) :
        /\ RuleTable[n].questionId \in DOMAIN answers
        /\ answers[RuleTable[n].questionId] = RuleTable[n].value
        /\ RuleTable[n].recommendation # "" }

\* Where the table first declares a triggered rule with this recommendation.
FirstDeclared(answers, rec) ==
    CHOOSE n \in Recommending(answers) :
        /\ RuleTable[n].recommendation = rec
        /\ \A m \in Recommending(answers) :
              RuleTable[m].recommendation = rec => n <= m

\* C20: recommendations holds exactly the recommendations of the triggered
\* rules, none twice, in the order the rule table declares them.
C20_Recommendations ==
    (Scored /\ scKind = "answers") =>
        LET recs == scResult.recommendations
        IN  /\ { recs[k] : k \in 1..Len(recs) } =
                  { RuleTable[n].recommendation : n \in Recommending(scAnswers) }
            /\ \A j, k \in 1..Len(recs) : j # k => recs[j] # recs[k]
            /\ \A j, k \in 1..Len(recs) :
                  j < k => FirstDeclared(scAnswers, recs[j]) <
                           FirstDeclared(scAnswers, recs[k])

C20_Witness ==
    /\ scDone
    /\ scKind = "answers"
    /\ scResult.error = "none"
    /\ scAnswers["biometric_identification"] = "yes"
    /\ scAnswers["data_processing"] = "sensitive"
    /\ scAnswers["automated_decision_making"] = "yes"
    /\ scAnswers["human_oversight"] = "none"
    /\ Len(scResult.recommendations) = 2

\* The lowest-risk option of every declared question.
LowestRiskAnswers ==
    [qid \in QuestionIds |->
        CASE qid = "company_description" -> "other"
          [] qid = "data_processing" -> "none"
          [] qid = "transparency" -> "full"
          [] qid = "human_oversight" -> "continuous"
          [] OTHER -> "no"]

\* The highest-risk option of every declared question.
HighestRiskAnswers ==
    [qid \in QuestionIds |->
        CASE qid = "company_description" -> "medical_diagnosis"
          [] qid = "data_processing" -> "sensitive"
          [] qid = "transparency" -> "none"
          [] qid = "human_oversight" -> "none"
          [] OTHER -> "yes"]

\* Every entry is for a declared question and is one of its options.
IsValidAnswerSet(answers) ==
    \A qid \in DOMAIN answers :
        qid \in QuestionIds /\ answers[qid] \in OptionsOf(qid)

C25_SubmissionExclusive ==
    /\ assessmentLoading =>
          /\ ~ENABLED HandleAnswer
          /\ ~ENABLED HandleNext
          /\ ~ENABLED HandlePrevious
    /\ Len(pending) <= 1
    /\ assessmentLoading <=> (pending # << >>)
    /\ pending # << >> =>
          /\ pending[1] = responses
          /\ DOMAIN pending[1] = QuestionIds

C25_Witness ==
    /\ assessmentLoading
    /\ Len(pending) = 1
    /\ pending[1] = responses
    /\ lastOp = "handleNext"

\* C26: a rejected POST leaves result null, resets the loading flag and keeps
\* the step (the last one) and all eight answers, so that Next submits the
\* same answers again; result becomes non-null only by a resolved POST.
C26_FailedSubmissionKeepsAll ==
    [][ /\ (pending # << >> /\ lastOp' = "postFails") =>
              /\ result = Null
              /\ result' = Null
              /\ ~assessmentLoading'
              /\ currentStep' = currentStep
              /\ currentStep' = LastStep
              /\ responses' = responses
              /\ DOMAIN responses' = QuestionIds
              /\ responses' = pending[1]
              /\ FormShown'
              /\ ~NextDisabled'
              /\ ~HasNextStep(currentStep')
        /\ (result = Null /\ result' # Null) => lastOp' = "postSucceeds"
      ]_vars

C26_Witness ==
    /\ lastOp = "postFails"
    /\ result = Null
    /\ ~assessmentLoading
    /\ currentStep = LastStep
    /\ DOMAIN responses = QuestionIds
    /\ ENABLED HandleNext

\* C23: activeTab is always one of the seven menu ids, the content rendered
\* is the section of that tab and of no other, and the 'Contenido no
\* encontrado' branch is never rendered.
C23_TabAlwaysKnown ==
    /\ activeTab \in MenuIds
    /\ Cardinality(MenuIds) = 7
    /\ renderContent(activeTab) # NotFound
    /\ \A other \in MenuIds \ {activeTab} :
          renderContent(other) # renderContent(activeTab)

C23_Witness ==
    /\ activeTab = "docs"
    /\ renderContent(activeTab) = "DocumentsComponent"
    /\ ~dashEffect

\* C24: every assessment record of the dashboard state, those of demo mode
\* included, has a risk_level of the four-level enum that is the band of
\* its risk_score.
C24_RecordsBanded ==
    \A i \in 1..Len(assessments) :
        /\ assessments[i].risk_level \in RiskLevels
        /\ assessments[i].risk_level = RiskLevel(assessments[i].risk_score)

\* C27: under any interleaving of login, logout and the completion of
\* validation requests, a non-null user implies a non-null token and a
\* stored token.
C27_UserOnlyWithToken ==
    user # Null => (token # Null /\ storedToken # Null)

\* C28: once no request is pending, messages holds only messages of
\* currentSession, and is empty when currentSession is null.
C28_MessagesOfSelected ==
    chatRequests = << >> =>
        /\ \A k \in 1..Len(messages) : messages[k] = currentSession
        /\ currentSession = Null => messages = << >>

\* C29: at most one message request is in flight, and while chatLoading
\* is true neither the send button nor the Enter key issues a further POST.
C29_OneSendInFlight ==
    /\ Len(SelectSeq(chatRequests, LAMBDA r : r.kind = "send")) <= 1
    /\ chatLoading => (~ENABLED SendClick /\ ~ENABLED EnterKey)

\* C30: updating is released whenever the requests of runManualUpdate
\* complete, and while updating is true no second update request is issued:
\* the four update buttons are disabled and runManualUpdate is suspended in
\* exactly one call.
C30_UpdateReleases ==
    /\ [](updating => ~ENABLED RunManualUpdate)
    /\ [](updateStage # "idle" => updating)
    /\ [][updateStage' = "posting" /\ updateStage # "posting"
            => ~updating /\ updating']_vars
    /\ (updating ~> ~updating)

C30_Witness ==
    /\ updating
    /\ updateStage = "refreshing"
    /\ updateType = "news"
    /\ isAuthenticated

====
